---- MODULE Spec2Model ----
(***************************************************************************)
(* A model of gocmt (src/main.go): the per-file pipeline read -> format -> *)
(* elide -> request -> merge -> format -> write, the comment merger        *)
(* (addComments / addFunctionComments) and the goroutines of main that run *)
(* the pipeline under a semaphore and aggregate progress.                  *)
(*                                                                         *)
(* Source text is a sequence of lines.  A line is a record [k, s, body]:   *)
(* k is what the line holds ("package", "import1" for a single-line        *)
(* import, "importgrp" for a parenthesised import block, "func", "type",   *)
(* "comment", "blank", or "junk" for text the Go parser rejects), s is the *)
(* line's text as a sequence of tokens, and body tells whether a function  *)
(* has a body ("full"), has none ("none") or had it replaced by the        *)
(* placeholder ("elided").  A declaration occupies one line; its source    *)
(* slice goCode[Pos:End] is the line's text s.                             *)
(***************************************************************************)
EXTENDS Integers, Sequences, FiniteSets, TLC

(***************************************************************************)
(* Bounds of the model.                                                    *)
(***************************************************************************)
MaxDecls == 2

MaxEntries == 2

MaxFiles == 2

MaxConc == 2

(***************************************************************************)
(* Strings.                                                                *)
(***************************************************************************)
NL == "\n"

Slashes == "// "

\* strings.Contains(s, substr)
Contains(s, substr) ==
    \E i \in 1..(Len(s) - Len(substr) + 1) :
        SubSeq(s, i, i + Len(substr) - 1) = substr

Min(S) == CHOOSE x \in S : \A y \in S : x <= y

Max(S) == CHOOSE x \in S : \A y \in S : x >= y

\* strings.ReplaceAll(s, old, new), for a non-empty old: s from token i on,
\* every old replaced by new
RECURSIVE ReplaceFrom(_, _, _, _)
ReplaceFrom(s, old, new, i) ==
    IF i > Len(s) THEN <<>>
    ELSE IF i + Len(old) - 1 <= Len(s) /\ SubSeq(s, i, i + Len(old) - 1) = old
         THEN new \o ReplaceFrom(s, old, new, i + Len(old))
         ELSE <<s[i]>> \o ReplaceFrom(s, old, new, i + 1)

ReplaceAll(s, old, new) == ReplaceFrom(s, old, new, 1)

\* the lines of a text: the text cut at every newline (from token i on)
RECURSIVE SplitFrom(_, _)
SplitFrom(s, i) ==
    IF \A j \in i..Len(s) : s[j] # NL THEN <<SubSeq(s, i, Len(s))>>
    ELSE <<SubSeq(s, i, Min({j \in i..Len(s) : s[j] = NL}) - 1)>>
         \o SplitFrom(s, Min({j \in i..Len(s) : s[j] = NL}) + 1)

SplitLines(s) == SplitFrom(s, 1)

\* the sequences of ss one after the other (from the i-th on)
RECURSIVE FlattenFrom(_, _)
FlattenFrom(ss, i) == IF i > Len(ss) THEN <<>> ELSE ss[i] \o FlattenFrom(ss, i + 1)

Flatten(ss) == FlattenFrom(ss, 1)

Idx(s) == [i \in 1..Len(s) |-> i]

(***************************************************************************)
(* Lines of source text.                                                   *)
(***************************************************************************)
Line(k, s, body) == [k |-> k, s |-> s, body |-> body]

Blank == Line("blank", <<>>, "none")

NodeKinds == {"package", "import1", "importgrp", "func", "type"}

\* the lines at which a top-level node of the file starts, in document order
NodeLines(src) == SelectSeq(Idx(src), LAMBDA i : src[i].k \in NodeKinds)

\* token.Pos of the start of a line, and the position one byte before it
\* (the newline that ends the line above)
PosOf(line) == 2 * line

LineOf(pos) == pos \div 2

(***************************************************************************)
(* go/parser: ParseFile.  The result is [err, Nodes, Comments]: Nodes are  *)
(* the top-level nodes in document order, each with its line, its source   *)
(* slice and its Doc (<<>> is nil); Comments are the file's comment        *)
(* groups (none unless mode is ParseComments).  A comment group is         *)
(* [Slash, EndLine, List]: the position of its first comment, the line of  *)
(* its last one and the Text of each comment.                              *)
(***************************************************************************)
ParseComments == "ParseComments"

NoComments == "0"

GroupEnd(src, i) ==
    CHOOSE j \in i..Len(src) :
        /\ \A m \in i..j : src[m].k = "comment"
        /\ j = Len(src) \/ src[j + 1].k # "comment"

MkGroup(src, i) ==
    [Slash |-> PosOf(i), EndLine |-> GroupEnd(src, i),
     List |-> [n \in 1..(GroupEnd(src, i) - i + 1) |-> src[i + n - 1].s]]

GroupStarts(src) ==
    SelectSeq(Idx(src), LAMBDA i : src[i].k = "comment" /\ (i = 1 \/ src[i - 1].k # "comment"))

GroupsOf(src) == [n \in 1..Len(GroupStarts(src)) |-> MkGroup(src, GroupStarts(src)[n])]

\* the comment group that ends on the line right above line p, as a Doc
DocAt(src, p, mode) ==
    IF mode = ParseComments /\ p > 1 /\ src[p - 1].k = "comment"
    THEN SelectSeq(GroupsOf(src), LAMBDA g : g.EndLine = p - 1)
    ELSE <<>>

MkNode(src, p, mode) ==
    [kind |-> src[p].k, line |-> p, code |-> src[p].s, body |-> src[p].body,
     Doc |-> DocAt(src, p, mode)]

\* the parser wants the package clause first, exactly one of them, and no
\* line it cannot parse
SyntaxError(src) == \E i \in DOMAIN src : src[i].k = "junk"

HasPackageClause(src) ==
    /\ NodeLines(src) # <<>>
    /\ src[NodeLines(src)[1]].k = "package"
    /\ \A n \in 2..Len(NodeLines(src)) : src[NodeLines(src)[n]].k # "package"

ParseFile(src, mode) ==
    IF SyntaxError(src) \/ ~HasPackageClause(src)
    THEN [err |-> TRUE, Nodes |-> <<>>, Comments |-> <<>>]
    ELSE [err |-> FALSE,
          Nodes |-> [n \in 1..Len(NodeLines(src)) |-> MkNode(src, NodeLines(src)[n], mode)],
          Comments |-> IF mode = ParseComments THEN GroupsOf(src) ELSE <<>>]

(***************************************************************************)
(* go/ast: NewCommentMap.  A comment group goes to the node that ends on   *)
(* the line right above it when an empty line follows the group, else to   *)
(* the node that follows it; with no node after it, it goes to the most    *)
(* recent node, which is a node inside the last declaration (key 0), or,   *)
(* when it starts right under the last declaration, to that declaration.   *)
(* The map's keys are indices into Nodes.                                  *)
(***************************************************************************)
NodesBefore(tree, g) == {n \in DOMAIN tree.Nodes : PosOf(tree.Nodes[n].line) < g.Slash}

NodesAfter(tree, g) == {n \in DOMAIN tree.Nodes : tree.Nodes[n].line > g.EndLine}

AssocOf(tree, g) ==
    LET before == NodesBefore(tree, g)
        after == NodesAfter(tree, g)
        pg == IF before = {} THEN 0 ELSE Max(before)
        q == IF after = {} THEN 0 ELSE Min(after)
    IN  IF /\ pg # 0
           /\ tree.Nodes[pg].line + 1 = LineOf(g.Slash)
           /\ (q = 0 \/ g.EndLine + 1 < tree.Nodes[q].line)
        THEN pg
        ELSE q

NewCommentMap(tree) ==
    [n \in 0..Len(tree.Nodes) |-> SelectSeq(tree.Comments, LAMBDA g : AssocOf(tree, g) = n)]

(***************************************************************************)
(* addFunctionComments: the first entry whose Position is found in the     *)
(* declaration's source slice, when the declaration has no Doc, replaces   *)
(* the declaration's entry in the comment map by one new comment placed    *)
(* one byte before the declaration.                                        *)
(***************************************************************************)
\* the scan without the test of decl.Doc: an entry that matches a
\* documented declaration replaces its comment
RECURSIVE FirstMatchAnyDoc(_, _, _, _)
FirstMatchAnyDoc(code, decl, comments, i) ==
    IF i > Len(comments) THEN 0
    ELSE IF Contains(code, comments[i].Position) THEN i
         ELSE FirstMatchAnyDoc(code, decl, comments, i + 1)

\* the scan without the test of the position marker: the first entry goes
\* to every undocumented declaration
RECURSIVE FirstMatchAnyPosition(_, _, _, _)
FirstMatchAnyPosition(code, decl, comments, i) ==
    IF i > Len(comments) THEN 0
    ELSE IF decl.Doc = <<>> THEN i
         ELSE FirstMatchAnyPosition(code, decl, comments, i + 1)

\* the new comment without the "// " in front of its later lines
NewGroupBare(decl, comment) ==
    [Slash |-> PosOf(decl.line) - 1, EndLine |-> LineOf(PosOf(decl.line) - 1),
     List |-> << <<Slashes>> \o comment.Comment >>]

RECURSIVE FirstMatch(_, _, _, _)
FirstMatch(code, decl, comments, i) ==
    IF i > Len(comments) THEN 0
    ELSE IF Contains(code, comments[i].Position) /\ decl.Doc = <<>> THEN i
         ELSE FirstMatch(code, decl, comments, i + 1)

NewGroup(decl, comment) ==
    [Slash |-> PosOf(decl.line) - 1, EndLine |-> LineOf(PosOf(decl.line) - 1),
     List |-> << <<Slashes>> \o ReplaceAll(comment.Comment, <<NL>>, <<NL, Slashes>>) >>]

addFunctionComments(cmap, code, n, decl, comments) ==
    LET i == FirstMatch(code, decl, comments, 1)
    IN  IF i = 0 THEN cmap
        ELSE [cmap EXCEPT ![n] = <<NewGroup(decl, comments[i])>>]

\* the traversal with the cases of the type switch that are commented out:
\* type declarations get comments too
RECURSIVE InspectAllDecls(_, _, _, _)
InspectAllDecls(tree, cmap, comments, n) ==
    IF n > Len(tree.Nodes) THEN cmap
    ELSE InspectAllDecls(tree,
                         IF tree.Nodes[n].kind \in {"func", "type"}
                         THEN addFunctionComments(cmap, tree.Nodes[n].code, n,
                                                  tree.Nodes[n], comments)
                         ELSE cmap,
                         comments, n + 1)

\* ast.Inspect with the type switch of addComments: only *ast.FuncDecl
RECURSIVE Inspect(_, _, _, _)
Inspect(tree, cmap, comments, n) ==
    IF n > Len(tree.Nodes) THEN cmap
    ELSE Inspect(tree,
                 IF tree.Nodes[n].kind = "func"
                 THEN addFunctionComments(cmap, tree.Nodes[n].code, n, tree.Nodes[n], comments)
                 ELSE cmap,
                 comments, n + 1)

\* cmap.Filter(node).Comments(): every group of the map, sorted by position
SortGroups(S) ==
    [k \in 1..Cardinality(S) |->
        CHOOSE g \in S : Cardinality({x \in S : x.Slash < g.Slash}) = k - 1]

CommentsOf(cmap) ==
    SortGroups(UNION {{cmap[n][i] : i \in DOMAIN cmap[n]} : n \in DOMAIN cmap})

(***************************************************************************)
(* go/format: Node.  Nodes and comment groups are written in the order of  *)
(* their positions; an empty line separates two of them when their lines   *)
(* are more than one apart.  A comment placed by addFunctionComments sits  *)
(* on the line above its declaration: the printer keeps the empty line in  *)
(* front of it when the declaration had one.                               *)
(***************************************************************************)
CommentLine(text) ==
    Line(IF Len(text) > 0 /\ text[1] = Slashes THEN "comment" ELSE "junk", text, "none")

GroupLines(g) ==
    LET texts == Flatten([i \in DOMAIN g.List |-> SplitLines(g.List[i])])
    IN  [i \in DOMAIN texts |-> CommentLine(texts[i])]

NodeItem(nd) ==
    [pos |-> PosOf(nd.line), line |-> nd.line, endLine |-> nd.line, placed |-> FALSE,
     lines |-> <<Line(nd.kind, nd.code, nd.body)>>]

GroupItem(g) ==
    [pos |-> g.Slash, line |-> LineOf(g.Slash), endLine |-> g.EndLine,
     placed |-> (g.Slash % 2 = 1), lines |-> GroupLines(g)]

SortItems(S) ==
    [k \in 1..Cardinality(S) |->
        CHOOSE x \in S : Cardinality({y \in S : y.pos < x.pos}) = k - 1]

ItemsOf(tree) ==
    SortItems({NodeItem(tree.Nodes[n]) : n \in DOMAIN tree.Nodes}
              \cup {GroupItem(tree.Comments[i]) : i \in DOMAIN tree.Comments})

RECURSIVE Emit(_, _)
Emit(items, i) ==
    IF i > Len(items) THEN <<>>
    ELSE LET it == items[i]
             gap == IF i = 1 THEN 0 ELSE it.line - items[i - 1].endLine
             sep == IF i > 1 /\ (gap > 1 \/ (it.placed /\ gap >= 1)) THEN <<Blank>> ELSE <<>>
         IN  sep \o it.lines \o Emit(items, i + 1)

FormatNode(tree) == Emit(ItemsOf(tree), 1)

(***************************************************************************)
(* addComments(goCode, commentsJSON).  commentsJSON is the reply's text:   *)
(* [fence, valid, comments], where fence tells what code fence still       *)
(* wraps the JSON and valid whether the JSON parses into CommentJSON.      *)
(* The result is [err, code].                                              *)
(***************************************************************************)
Unmarshal(commentsJSON) ==
    IF commentsJSON.fence = "none" /\ commentsJSON.valid
    THEN [err |-> FALSE, Comments |-> commentsJSON.comments]
    ELSE [err |-> TRUE, Comments |-> <<>>]

addComments(goCode, commentsJSON) ==
    LET comments == Unmarshal(commentsJSON)
        node == ParseFile(goCode, ParseComments)
    IN  IF comments.err \/ node.err THEN [err |-> TRUE, code |-> <<>>]
        ELSE LET cmap == Inspect(node, NewCommentMap(node), comments.Comments, 1)
             IN  [err |-> FALSE,
                  code |-> FormatNode([node EXCEPT !.Comments = CommentsOf(cmap)])]

(***************************************************************************)
(* formatGoCode (go/format: Source).  A syntax error fails; source without *)
(* a package clause is accepted as a list of declarations.  The canonical  *)
(* form has no empty line at either end and no two in a row.               *)
(***************************************************************************)
KeptByGofmt(src, i) ==
    \/ src[i].k # "blank"
    \/ /\ i > 1
       /\ src[i - 1].k # "blank"
       /\ \E j \in (i + 1)..Len(src) : src[j].k # "blank"

Gofmt(src) ==
    LET keep == SelectSeq(Idx(src), LAMBDA i : KeptByGofmt(src, i))
    IN  [n \in 1..Len(keep) |-> src[keep[n]]]

formatGoCode(goCode) ==
    IF SyntaxError(goCode) THEN [err |-> TRUE, code |-> <<>>]
    ELSE [err |-> FALSE, code |-> Gofmt(goCode)]

(***************************************************************************)
(* processGoCode: parse without comments, replace every function body,     *)
(* print, and strip the package-and-imports prologue.                      *)
(***************************************************************************)
\* strings.TrimSpace, on lines
TrimSpace(src) ==
    LET full == {i \in DOMAIN src : src[i].k # "blank"}
    IN  IF full = {} THEN <<>> ELSE SubSeq(src, Min(full), Max(full))

replaceFuncBody(decl) == [decl EXCEPT !.body = "elided"]

ElideBodies(tree) ==
    [tree EXCEPT !.Nodes =
        [n \in DOMAIN tree.Nodes |->
            IF tree.Nodes[n].kind = "func" /\ tree.Nodes[n].body # "none"
            THEN replaceFuncBody(tree.Nodes[n])
            ELSE tree.Nodes[n]]]

\* the match of `(?s)package\s+\w+\s+import\s+\((.*?)\)`: a package clause
\* with a parenthesised import block next, only white space between them
PrologueMatches(goCode) ==
    {m \in (DOMAIN goCode) \X (DOMAIN goCode) :
        /\ m[1] < m[2]
        /\ goCode[m[1]].k = "package"
        /\ goCode[m[2]].k = "importgrp"
        /\ \A i \in (m[1] + 1)..(m[2] - 1) : goCode[i].k = "blank"}

removePackageAndImports(goCode) ==
    IF PrologueMatches(goCode) = {}
    THEN [err |-> TRUE, code |-> <<>>]
    ELSE LET m == CHOOSE x \in PrologueMatches(goCode) :
                      \A y \in PrologueMatches(goCode) : x[1] <= y[1]
         IN  [err |-> FALSE,
              code |-> TrimSpace(SubSeq(goCode, 1, m[1] - 1)
                                 \o SubSeq(goCode, m[2] + 1, Len(goCode)))]

processGoCode(goCode) ==
    LET node == ParseFile(goCode, NoComments)
    IN  IF node.err THEN [err |-> TRUE, code |-> <<>>]
        ELSE removePackageAndImports(FormatNode(ElideBodies(node)))

(***************************************************************************)
(* The reply of the annotation service as main handles it: the regexp      *)
(* "(^```json\n)|(```$)" removes a json fence; any other fence stays.      *)
(***************************************************************************)
StripFence(content) ==
    [content EXCEPT !.fence = IF content.fence = "json" THEN "none" ELSE content.fence]

(***************************************************************************)
(* The state of a run of main, from line 139 on: the files found, the     *)
(* semaphore, the wait group, the two channels, the goroutines.            *)
(***************************************************************************)
VARIABLES
    concurrency,    \* *concurrency, the capacity of sem
    total,          \* len(goFiles); the files are 1..total
    disk,           \* the content of each file on disk
    orig,           \* the content of each file when the run started
    pcMain,         \* where main is
    i,              \* the index of main's loop over goFiles
    wg,             \* the counter of the sync.WaitGroup
    sem,            \* the number of tokens in sem
    pc,             \* where each file's worker is
    err,            \* each worker's err
    goCode,         \* each worker's goCode
    processedCode,  \* each worker's processedCode
    resp,           \* each worker's resp
    result,         \* each worker's result, then formatResult
    panicking,      \* the run-time panic each worker is in
    progressClosed, \* whether close(progress) has run
    pcAgg,          \* where the progress aggregator is
    received,       \* the value the aggregator took from progress
    completed,      \* the completed counter
    counted,        \* how often completed was incremented for each file
    percent,        \* the percentage last printed
    allProcessed,   \* whether "All files processed." was printed
    pcCloser,       \* where the goroutine that closes progress is
    proc,           \* the process: running, exited, crashed
    crashedBy,      \* the worker whose panic ended the process
    mSrc,           \* the merge step on its own: the source,
    mJSON,          \* the reply,
    mOut,           \* what addComments returned,
    mAgain,         \* what it returned for its own output,
    mPc,            \* and how far it is
    logOk,          \* the start of main: whether logfile.log can be opened,
    helpFlag,       \* *helpFlag,
    fileOrDir,      \* *fileOrDir,
    commitFlag,     \* *commitFlag,
    token,          \* MOONSHOT_API_KEY,
    gitOut,         \* what git diff answers,
    fs,             \* the regular files that exist,
    pcStart,        \* where main is before line 139,
    fileOrDirList,  \* fileOrDirList,
    goFiles,        \* goFiles,
    calls,          \* which of gitDiff and getGoFiles main has called,
    printed,        \* what main has printed,
    exitStatus      \* and the exit status of the process

vars == <<concurrency, total, disk, orig, pcMain, i, wg, sem, pc, err, goCode,
          processedCode, resp, result, panicking, progressClosed, pcAgg, received,
          completed, counted, percent, allProcessed, pcCloser, proc, crashedBy,
          mSrc, mJSON, mOut, mAgain, mPc,
          logOk, helpFlag, fileOrDir, commitFlag, token, gitOut, fs, pcStart,
          fileOrDirList, goFiles, calls, printed, exitStatus>>

startVars == <<logOk, helpFlag, fileOrDir, commitFlag, token, gitOut, fs, pcStart,
               fileOrDirList, goFiles, calls, printed, exitStatus>>

mergeVars == <<mSrc, mJSON, mOut, mAgain, mPc>>

runVars == <<concurrency, total, disk, orig, pcMain, i, wg, sem, pc, err, goCode,
             processedCode, resp, result, panicking, progressClosed, pcAgg, received,
             completed, counted, percent, allProcessed, pcCloser, proc, crashedBy>>

Files == 1..total

(***************************************************************************)
(* What the files hold and what the annotation service answers.            *)
(***************************************************************************)
Pkg == Line("package", <<"p">>, "none")

ImportGroup == Line("importgrp", <<>>, "none")

ImportOne == Line("import1", <<>>, "none")

Func(code) == Line("func", code, "full")

Type(code) == Line("type", code, "none")

CommentOf(text) == Line("comment", <<Slashes>> \o text, "none")

Junk == Line("junk", <<>>, "none")

Entry(position, comment) == [Position |-> position, Comment |-> comment]

Content(fence, valid, comments) == [fence |-> fence, valid |-> valid, comments |-> comments]

\* a file with an import block (and an empty line too many), one with a
\* single-line import, one with no import, one with no package clause, and
\* one that is not Go
FileSources ==
    { <<Pkg, ImportGroup, Blank, Blank, Func(<<"a">>)>>,
      <<Pkg, ImportOne, Func(<<"a">>)>>,
      <<Pkg, Func(<<"a">>)>>,
      <<Func(<<"a">>)>>,
      <<Pkg, Junk>> }

\* CreateChatCompletion returns an error, or a response with its Choices
Replies ==
    { [err |-> TRUE, Choices |-> <<>>],
      [err |-> FALSE, Choices |-> <<>>],
      [err |-> FALSE, Choices |-> <<Content("none", FALSE, <<>>)>>],
      [err |-> FALSE, Choices |-> <<Content("json", TRUE, <<Entry(<<"a">>, <<"x">>)>>)>>] }

NoReply == [err |-> FALSE, Choices |-> <<>>]

InitRun ==
    /\ concurrency \in 1..MaxConc
    /\ total \in 1..MaxFiles
    /\ disk \in [1..total -> FileSources]
    /\ orig = disk
    /\ pcMain = "loop"
    /\ i = 1
    /\ wg = 0
    /\ sem = 0
    /\ pc = [f \in 1..total |-> "idle"]
    /\ err = [f \in 1..total |-> FALSE]
    /\ goCode = [f \in 1..total |-> <<>>]
    /\ processedCode = [f \in 1..total |-> <<>>]
    /\ resp = [f \in 1..total |-> NoReply]
    /\ result = [f \in 1..total |-> <<>>]
    /\ panicking = [f \in 1..total |-> "none"]
    /\ progressClosed = FALSE
    /\ pcAgg = "recv"
    /\ received = 0
    /\ completed = 0
    /\ counted = [f \in 1..total |-> 0]
    /\ percent = 0
    /\ allProcessed = FALSE
    /\ pcCloser = "idle"
    /\ proc = "running"
    /\ crashedBy = 0

MergeOff ==
    /\ mSrc = <<>>
    /\ mJSON = Content("none", TRUE, <<>>)
    /\ mOut = [err |-> FALSE, code |-> <<>>]
    /\ mAgain = [err |-> FALSE, code |-> <<>>]
    /\ mPc = "off"

\* the start of main is over: goFiles were found and the token is set
StartOff ==
    /\ logOk = TRUE
    /\ helpFlag = FALSE
    /\ fileOrDir = <<>>
    /\ commitFlag = <<>>
    /\ token = TRUE
    /\ gitOut = [err |-> FALSE, out |-> <<>>]
    /\ fs = {}
    /\ pcStart = "off"
    /\ fileOrDirList = <<>>
    /\ goFiles = <<>>
    /\ calls = {}
    /\ printed = {}
    /\ exitStatus = 0

Init == InitRun /\ MergeOff /\ StartOff

(***************************************************************************)
(* main: the loop that starts the workers (lines 166-282), the goroutine   *)
(* that closes progress, and the wait for done.                            *)
(***************************************************************************)
\* wg.Add(1)
MainAdd ==
    /\ proc = "running" /\ pcMain = "loop" /\ i <= total
    /\ wg' = wg + 1
    /\ pcMain' = "acquire"
    /\ UNCHANGED <<concurrency, total, disk, orig, i, sem, pc, err, goCode, processedCode,
                   resp, result, panicking, progressClosed, pcAgg, received, completed,
                   counted, percent, allProcessed, pcCloser, proc, crashedBy>>
    /\ UNCHANGED mergeVars
    /\ UNCHANGED startVars

\* a channel that takes one token more than its capacity
SemOneTooMany == sem <= concurrency

\* whether sem takes one more token
SemHasRoom == sem < concurrency

\* sem <- struct{}{}; go func(i, file)
MainAcquire ==
    /\ proc = "running" /\ pcMain = "acquire"
    /\ SemHasRoom
    /\ sem' = sem + 1
    /\ pc' = [pc EXCEPT ![i] = "read"]
    /\ i' = i + 1
    /\ pcMain' = "loop"
    /\ UNCHANGED <<concurrency, total, disk, orig, wg, err, goCode, processedCode, resp,
                   result, panicking, progressClosed, pcAgg, received, completed, counted,
                   percent, allProcessed, pcCloser, proc, crashedBy>>
    /\ UNCHANGED mergeVars
    /\ UNCHANGED startVars

\* go func() { wg.Wait(); close(progress) }()
MainSpawnCloser ==
    /\ proc = "running" /\ pcMain = "loop" /\ i > total
    /\ pcCloser' = "wait"
    /\ pcMain' = "wait"
    /\ UNCHANGED <<concurrency, total, disk, orig, i, wg, sem, pc, err, goCode,
                   processedCode, resp, result, panicking, progressClosed, pcAgg, received,
                   completed, counted, percent, allProcessed, proc, crashedBy>>
    /\ UNCHANGED mergeVars
    /\ UNCHANGED startVars

\* main goes on without the receive from done
MainSkipsDone ==
    /\ proc = "running" /\ pcMain = "wait"
    /\ pcMain' = "return"
    /\ UNCHANGED <<concurrency, total, disk, orig, i, wg, sem, pc, err, goCode,
                   processedCode, resp, result, panicking, progressClosed, pcAgg, received,
                   completed, counted, percent, allProcessed, pcCloser, proc, crashedBy>>
    /\ UNCHANGED mergeVars
    /\ UNCHANGED startVars

\* <-done, met by the aggregator's done <- true
MainRecvDone ==
    /\ proc = "running" /\ pcMain = "wait" /\ pcAgg = "signal"
    /\ pcMain' = "return"
    /\ pcAgg' = "end"
    /\ UNCHANGED <<concurrency, total, disk, orig, i, wg, sem, pc, err, goCode,
                   processedCode, resp, result, panicking, progressClosed, received,
                   completed, counted, percent, allProcessed, pcCloser, proc, crashedBy>>
    /\ UNCHANGED mergeVars
    /\ UNCHANGED startVars

\* main returns: the process exits
MainReturn ==
    /\ proc = "running" /\ pcMain = "return"
    /\ proc' = "exited"
    /\ pcMain' = "end"
    /\ UNCHANGED <<concurrency, total, disk, orig, i, wg, sem, pc, err, goCode,
                   processedCode, resp, result, panicking, progressClosed, pcAgg, received,
                   completed, counted, percent, allProcessed, pcCloser, crashedBy>>
    /\ UNCHANGED mergeVars
    /\ UNCHANGED startVars

(***************************************************************************)
(* A worker: the pipeline of one file (lines 187-280).  A step that fails  *)
(* sets err and returns, which runs the deferred function; the values the  *)
(* pipeline held are not read again.                                       *)
(***************************************************************************)
Return(f) ==
    /\ pc' = [pc EXCEPT ![f] = "release"]
    /\ goCode' = [goCode EXCEPT ![f] = <<>>]
    /\ processedCode' = [processedCode EXCEPT ![f] = <<>>]
    /\ resp' = [resp EXCEPT ![f] = NoReply]
    /\ result' = [result EXCEPT ![f] = <<>>]

Fail(f) == err' = [err EXCEPT ![f] = TRUE] /\ Return(f)

\* goCodeByte, err = os.ReadFile(file)
ReadFile(f) ==
    /\ proc = "running" /\ pc[f] = "read"
    /\ \E ok \in BOOLEAN :
        IF ok
        THEN /\ goCode' = [goCode EXCEPT ![f] = disk[f]]
             /\ pc' = [pc EXCEPT ![f] = "format"]
             /\ UNCHANGED <<err, processedCode, resp, result>>
        ELSE Fail(f)
    /\ UNCHANGED <<concurrency, total, disk, orig, pcMain, i, wg, sem, panicking,
                   progressClosed, pcAgg, received, completed, counted, percent,
                   allProcessed, pcCloser, proc, crashedBy>>
    /\ UNCHANGED mergeVars
    /\ UNCHANGED startVars

\* goCode, err = formatGoCode(goCode)
Format(f) ==
    /\ proc = "running" /\ pc[f] = "format"
    /\ LET r == formatGoCode(goCode[f])
       IN  IF r.err THEN Fail(f)
           ELSE /\ goCode' = [goCode EXCEPT ![f] = r.code]
                /\ pc' = [pc EXCEPT ![f] = "process"]
                /\ UNCHANGED <<err, processedCode, resp, result>>
    /\ UNCHANGED <<concurrency, total, disk, orig, pcMain, i, wg, sem, panicking,
                   progressClosed, pcAgg, received, completed, counted, percent,
                   allProcessed, pcCloser, proc, crashedBy>>
    /\ UNCHANGED mergeVars
    /\ UNCHANGED startVars

\* processedCode, err = processGoCode(goCode)
Process(f) ==
    /\ proc = "running" /\ pc[f] = "process"
    /\ LET r == processGoCode(goCode[f])
       IN  IF r.err THEN Fail(f)
           ELSE /\ processedCode' = [processedCode EXCEPT ![f] = r.code]
                /\ pc' = [pc EXCEPT ![f] = "request"]
                /\ UNCHANGED <<err, goCode, resp, result>>
    /\ UNCHANGED <<concurrency, total, disk, orig, pcMain, i, wg, sem, panicking,
                   progressClosed, pcAgg, received, completed, counted, percent,
                   allProcessed, pcCloser, proc, crashedBy>>
    /\ UNCHANGED mergeVars
    /\ UNCHANGED startVars

\* resp, err = client.CreateChatCompletion(...)
Request(f) ==
    /\ proc = "running" /\ pc[f] = "request"
    /\ \E reply \in Replies :
        IF reply.err THEN Fail(f)
        ELSE /\ resp' = [resp EXCEPT ![f] = reply]
             /\ pc' = [pc EXCEPT ![f] = "choice"]
             /\ UNCHANGED <<err, goCode, processedCode, result>>
    /\ UNCHANGED <<concurrency, total, disk, orig, pcMain, i, wg, sem, panicking,
                   progressClosed, pcAgg, received, completed, counted, percent,
                   allProcessed, pcCloser, proc, crashedBy>>
    /\ UNCHANGED mergeVars
    /\ UNCHANGED startVars

\* commentsJSON := resp.Choices[0].Message.Content: with no choice the index
\* is out of range and the goroutine panics, which runs the deferred function
Choice(f) ==
    /\ proc = "running" /\ pc[f] = "choice"
    /\ IF resp[f].Choices = <<>>
       THEN /\ panicking' = [panicking EXCEPT ![f] = "index"]
            /\ Return(f)
       ELSE /\ pc' = [pc EXCEPT ![f] = "merge"]
            /\ UNCHANGED <<panicking, goCode, processedCode, resp, result>>
    /\ UNCHANGED <<concurrency, total, disk, orig, pcMain, i, wg, sem, err, progressClosed,
                   pcAgg, received, completed, counted, percent, allProcessed, pcCloser,
                   proc, crashedBy>>
    /\ UNCHANGED mergeVars
    /\ UNCHANGED startVars

\* result, err = addComments(goCode, commentsJSON), the fence stripped first
Merge(f) ==
    /\ proc = "running" /\ pc[f] = "merge"
    /\ LET r == addComments(goCode[f], StripFence(resp[f].Choices[1]))
       IN  IF r.err THEN Fail(f)
           ELSE /\ result' = [result EXCEPT ![f] = r.code]
                /\ pc' = [pc EXCEPT ![f] = "reformat"]
                /\ UNCHANGED <<err, goCode, processedCode, resp>>
    /\ UNCHANGED <<concurrency, total, disk, orig, pcMain, i, wg, sem, panicking,
                   progressClosed, pcAgg, received, completed, counted, percent,
                   allProcessed, pcCloser, proc, crashedBy>>
    /\ UNCHANGED mergeVars
    /\ UNCHANGED startVars

\* formatResult, err = formatGoCode(result)
Reformat(f) ==
    /\ proc = "running" /\ pc[f] = "reformat"
    /\ LET r == formatGoCode(result[f])
       IN  IF r.err THEN Fail(f)
           ELSE /\ result' = [result EXCEPT ![f] = r.code]
                /\ pc' = [pc EXCEPT ![f] = "write"]
                /\ UNCHANGED <<err, goCode, processedCode, resp>>
    /\ UNCHANGED <<concurrency, total, disk, orig, pcMain, i, wg, sem, panicking,
                   progressClosed, pcAgg, received, completed, counted, percent,
                   allProcessed, pcCloser, proc, crashedBy>>
    /\ UNCHANGED mergeVars
    /\ UNCHANGED startVars

\* what os.WriteFile can leave on disk: it opens the file with O_TRUNC and
\* then writes, so it fails with the file as it was (the open failed) or cut
\* short (the write failed).  The file cut to nothing stands for every
\* prefix of the new content a failed write can leave.
WriteFileOutcomes(old, new) ==
    { [err |-> FALSE, content |-> new],
      [err |-> TRUE, content |-> old],
      [err |-> TRUE, content |-> <<>>] }

\* err = os.WriteFile(file, []byte(formatResult), 0644)
Write(f) ==
    /\ proc = "running" /\ pc[f] = "write"
    /\ \E w \in WriteFileOutcomes(disk[f], result[f]) :
        /\ disk' = [disk EXCEPT ![f] = w.content]
        /\ err' = [err EXCEPT ![f] = w.err]
        /\ Return(f)
    /\ UNCHANGED <<concurrency, total, orig, pcMain, i, wg, sem, panicking, progressClosed,
                   pcAgg, received, completed, counted, percent, allProcessed, pcCloser,
                   proc, crashedBy>>
    /\ UNCHANGED mergeVars
    /\ UNCHANGED startVars

(***************************************************************************)
(* The deferred function of a worker (lines 179-186): <-sem, wg.Done(),    *)
(* progress <- i.                                                          *)
(***************************************************************************)
\* <-sem
Release(f) ==
    /\ proc = "running" /\ pc[f] = "release"
    /\ sem > 0
    /\ sem' = sem - 1
    /\ pc' = [pc EXCEPT ![f] = "wgdone"]
    /\ UNCHANGED <<concurrency, total, disk, orig, pcMain, i, wg, err, goCode,
                   processedCode, resp, result, panicking, progressClosed, pcAgg, received,
                   completed, counted, percent, allProcessed, pcCloser, proc, crashedBy>>
    /\ UNCHANGED mergeVars
    /\ UNCHANGED startVars

\* wg.Done()
WgDone(f) ==
    /\ proc = "running" /\ pc[f] = "wgdone"
    /\ wg' = wg - 1
    /\ pc' = [pc EXCEPT ![f] = "send"]
    /\ UNCHANGED <<concurrency, total, disk, orig, pcMain, i, sem, err, goCode,
                   processedCode, resp, result, panicking, progressClosed, pcAgg, received,
                   completed, counted, percent, allProcessed, pcCloser, proc, crashedBy>>
    /\ UNCHANGED mergeVars
    /\ UNCHANGED startVars

\* where a worker goes after its deferred function: a panicking goroutine
\* goes on to end the process
AfterDefer(f) == IF panicking[f] # "none" THEN "dying" ELSE "end"

\* progress <- i, met by the aggregator's receive (progress has no buffer)
Send(f) ==
    /\ proc = "running" /\ pc[f] = "send"
    /\ ~progressClosed
    /\ pcAgg = "recv"
    /\ received' = f
    /\ pcAgg' = "count"
    /\ pc' = [pc EXCEPT ![f] = AfterDefer(f)]
    /\ UNCHANGED <<concurrency, total, disk, orig, pcMain, i, wg, sem, err, goCode,
                   processedCode, resp, result, panicking, progressClosed, completed,
                   counted, percent, allProcessed, pcCloser, proc, crashedBy>>
    /\ UNCHANGED mergeVars
    /\ UNCHANGED startVars

\* progress <- i on the closed channel: a run-time panic
SendOnClosed(f) ==
    /\ proc = "running" /\ pc[f] = "send"
    /\ progressClosed
    /\ panicking' = [panicking EXCEPT ![f] = "send"]
    /\ pc' = [pc EXCEPT ![f] = "dying"]
    /\ UNCHANGED <<concurrency, total, disk, orig, pcMain, i, wg, sem, err, goCode,
                   processedCode, resp, result, progressClosed, pcAgg, received, completed,
                   counted, percent, allProcessed, pcCloser, proc, crashedBy>>
    /\ UNCHANGED mergeVars
    /\ UNCHANGED startVars

\* a panic no one recovers ends the process with every goroutine in it
Crash(f) ==
    /\ proc = "running" /\ pc[f] = "dying"
    /\ proc' = "crashed"
    /\ crashedBy' = f
    /\ UNCHANGED <<concurrency, total, disk, orig, pcMain, i, wg, sem, pc, err, goCode,
                   processedCode, resp, result, panicking, progressClosed, pcAgg, received,
                   completed, counted, percent, allProcessed, pcCloser>>
    /\ UNCHANGED mergeVars
    /\ UNCHANGED startVars

(***************************************************************************)
(* The progress aggregator (lines 146-164) and the goroutine that closes   *)
(* progress (lines 284-287).                                               *)
(***************************************************************************)
Percent(c, n) == IF c >= n THEN 100 ELSE IF c = 0 THEN 0 ELSE (c * 100) \div n

\* atomic.AddInt32(&completed, 1), the progress line, and the test for the end
AggCount ==
    /\ proc = "running" /\ pcAgg = "count"
    /\ completed' = completed + 1
    /\ counted' = [counted EXCEPT ![received] = @ + 1]
    /\ percent' = Percent(completed + 1, total)
    /\ allProcessed' = (allProcessed \/ completed + 1 >= total)
    /\ pcAgg' = IF completed + 1 >= total THEN "signal" ELSE "recv"
    /\ UNCHANGED <<concurrency, total, disk, orig, pcMain, i, wg, sem, pc, err, goCode,
                   processedCode, resp, result, panicking, progressClosed, received,
                   pcCloser, proc, crashedBy>>
    /\ UNCHANGED mergeVars
    /\ UNCHANGED startVars

\* for range progress ends when progress is closed
AggClosed ==
    /\ proc = "running" /\ pcAgg = "recv"
    /\ progressClosed
    /\ pcAgg' = "end"
    /\ UNCHANGED <<concurrency, total, disk, orig, pcMain, i, wg, sem, pc, err, goCode,
                   processedCode, resp, result, panicking, progressClosed, received,
                   completed, counted, percent, allProcessed, pcCloser, proc, crashedBy>>
    /\ UNCHANGED mergeVars
    /\ UNCHANGED startVars

\* wg.Wait()
CloserWait ==
    /\ proc = "running" /\ pcCloser = "wait"
    /\ wg = 0
    /\ pcCloser' = "close"
    /\ UNCHANGED <<concurrency, total, disk, orig, pcMain, i, wg, sem, pc, err, goCode,
                   processedCode, resp, result, panicking, progressClosed, pcAgg, received,
                   completed, counted, percent, allProcessed, proc, crashedBy>>
    /\ UNCHANGED mergeVars
    /\ UNCHANGED startVars

\* close(progress)
CloserClose ==
    /\ proc = "running" /\ pcCloser = "close"
    /\ progressClosed' = TRUE
    /\ pcCloser' = "end"
    /\ UNCHANGED <<concurrency, total, disk, orig, pcMain, i, wg, sem, pc, err, goCode,
                   processedCode, resp, result, panicking, pcAgg, received, completed,
                   counted, percent, allProcessed, proc, crashedBy>>
    /\ UNCHANGED mergeVars
    /\ UNCHANGED startVars

\* the steps of a worker other than the calls of processGoCode and addComments
Worker(f) ==
    \/ ReadFile(f) \/ Format(f) \/ Request(f) \/ Choice(f) \/ Reformat(f) \/ Write(f)
    \/ Release(f) \/ WgDone(f) \/ Send(f) \/ SendOnClosed(f) \/ Crash(f)

\* the worker is in its call of processGoCode or of addComments
Computing(f) == f \in Files /\ proc = "running" /\ pc[f] \in {"process", "merge"}

Main == MainAdd \/ MainAcquire \/ MainSpawnCloser \/ MainRecvDone \/ MainReturn

Aggregator == AggCount \/ AggClosed

Closer == CloserWait \/ CloserClose

Next ==
    \/ MainAdd
    \/ MainAcquire
    \/ MainSpawnCloser
    \/ MainRecvDone
    \/ MainReturn
    \/ AggCount
    \/ AggClosed
    \/ CloserWait
    \/ CloserClose
    \/ \E f \in Files : ReadFile(f)
    \/ \E f \in Files : Format(f)
    \/ \E f \in Files : Process(f)
    \/ \E f \in Files : Request(f)
    \/ \E f \in Files : Choice(f)
    \/ \E f \in Files : Merge(f)
    \/ \E f \in Files : Reformat(f)
    \/ \E f \in Files : Write(f)
    \/ \E f \in Files : Release(f)
    \/ \E f \in Files : WgDone(f)
    \/ \E f \in Files : Send(f)
    \/ \E f \in Files : SendOnClosed(f)
    \/ \E f \in Files : Crash(f)

Spec == Init /\ [][Next]_vars

\* every goroutine that can take a step is scheduled in the end.  Process(f)
\* and Merge(f) are enabled exactly while the worker is in the call and end
\* the call when they happen, so their weak fairness is []<>~Computing(f).
Fairness ==
    /\ WF_vars(Main)
    /\ WF_vars(Aggregator)
    /\ WF_vars(Closer)
    /\ \A f \in 1..MaxFiles : WF_vars(f \in Files /\ Worker(f))
    /\ \A f \in 1..MaxFiles : []<>~Computing(f)

FairSpec == Spec /\ Fairness

(***************************************************************************)
(* The merge step on its own: addComments applied to a source and a reply  *)
(* drawn from bounded sets, then applied again to what it returned.        *)
(***************************************************************************)
\* a declaration with what stands above it: nothing, a doc comment, or a
\* comment that an empty line detaches from it
Blocks ==
    { <<Func(<<"a">>)>>,
      <<Func(<<"b">>)>>,
      <<Func(<<"a", "b">>)>>,
      <<CommentOf(<<"d">>), Func(<<"a">>)>>,
      <<CommentOf(<<"d">>), Blank, Func(<<"b">>)>>,
      <<Type(<<"a">>)>>,
      <<CommentOf(<<"d">>), Type(<<"b">>)>> }

Entries ==
    { Entry(<<"a">>, <<"x">>),
      Entry(<<"b">>, <<"y", NL, "z">>),
      Entry(<<"c">>, <<"z">>),
      Entry(<<>>, <<"w">>) }

SeqsUpTo(S, n) == UNION {[1..k -> S] : k \in 0..n}

\* the blocks one under the other, an empty line between two of them, under
\* a package clause if there is one
SourceOf(pkg, blocks) ==
    LET body == Flatten([k \in DOMAIN blocks |-> <<Blank>> \o blocks[k]])
    IN  IF pkg THEN <<Pkg>> \o body ELSE Tail(body)

MergeSources ==
    {SourceOf(TRUE, bs) : bs \in SeqsUpTo(Blocks, MaxDecls)}
    \cup {SourceOf(FALSE, <<b>>) : b \in Blocks}

MergeReplies ==
    {Content("none", TRUE, es) : es \in SeqsUpTo(Entries, MaxEntries)}
    \cup {Content("none", FALSE, <<>>), Content("other", TRUE, <<>>)}

RunOff ==
    /\ concurrency = 1
    /\ total = 0
    /\ disk = <<>>
    /\ orig = <<>>
    /\ pcMain = "off"
    /\ i = 1
    /\ wg = 0
    /\ sem = 0
    /\ pc = <<>>
    /\ err = <<>>
    /\ goCode = <<>>
    /\ processedCode = <<>>
    /\ resp = <<>>
    /\ result = <<>>
    /\ panicking = <<>>
    /\ progressClosed = FALSE
    /\ pcAgg = "off"
    /\ received = 0
    /\ completed = 0
    /\ counted = <<>>
    /\ percent = 0
    /\ allProcessed = FALSE
    /\ pcCloser = "off"
    /\ proc = "off"
    /\ crashedBy = 0

InitMerge ==
    /\ mSrc \in MergeSources
    /\ mJSON \in MergeReplies
    /\ mOut = [err |-> FALSE, code |-> <<>>]
    /\ mAgain = [err |-> FALSE, code |-> <<>>]
    /\ mPc = "input"
    /\ RunOff
    /\ StartOff

\* result, err = addComments(goCode, commentsJSON)
DoMerge ==
    /\ mPc = "input"
    /\ mOut' = addComments(mSrc, mJSON)
    /\ mPc' = "merged"
    /\ UNCHANGED <<mSrc, mJSON, mAgain>>
    /\ UNCHANGED runVars
    /\ UNCHANGED startVars

\* addComments on its own output, with the same reply
DoMergeAgain ==
    /\ mPc = "merged"
    /\ ~mOut.err
    /\ mAgain' = addComments(mOut.code, mJSON)
    /\ mPc' = "again"
    /\ UNCHANGED <<mSrc, mJSON, mOut>>
    /\ UNCHANGED runVars
    /\ UNCHANGED startVars

NextMerge == DoMerge \/ DoMergeAgain

MergeSpec == InitMerge /\ [][NextMerge]_vars

(***************************************************************************)
(* Properties of the run: Spec and FairSpec.                               *)
(***************************************************************************)
\* every per-file step returned: no worker panicked inside its pipeline
NoStepPanics == \A f \in Files : panicking[f] # "index"

RunDone ==
    /\ proc = "exited"
    /\ completed = total
    /\ percent = 100
    /\ allProcessed

\* C1: under fair scheduling, when every per-file step returns, the
\* aggregator eventually sees completed = total, reports 100% and "All
\* files processed", and main unblocks and the run ends.  (A panic of a
\* step is never undone, so []NoStepPanics => <>RunDone is the formula
\* below.)
C1_RunEnds == <>(RunDone \/ ~NoStepPanics)

RECURSIVE SumCounted(_)
SumCounted(n) == IF n = 0 THEN 0 ELSE counted[n] + SumCounted(n - 1)

\* the worker of f is over: it ran its deferred function to the end
WorkerOver(f) == pc[f] \in {"end", "dying"}

\* C2: completed is the number of increments, one per file whose worker is
\* over and never two; it never exceeds total; a file whose worker is over
\* has its increment, or the aggregator holds its signal and is about to
\* count it.
C2_CountedOnce ==
    /\ completed = SumCounted(total)
    /\ completed <= total
    /\ \A f \in Files : counted[f] <= 1
    /\ \A f \in Files :
        WorkerOver(f) => counted[f] = 1 \/ (pcAgg = "count" /\ received = f)

\* the pipeline of f failed: a step returned an error or panicked
PipelineFailed(f) == err[f] \/ panicking[f] = "index"

\* C3: a file whose pipeline failed at any stage holds on disk what it held
\* before the run; only a file whose pipeline succeeded has changed.
C3_FailedFileUntouched ==
    \A f \in Files :
        /\ PipelineFailed(f) => disk[f] = orig[f]
        /\ disk[f] # orig[f] => ~PipelineFailed(f)

\* C4: the failure of one file at a stage of its pipeline, a reply with no
\* choice included, never aborts the run.
C4_FailureNeverAborts ==
    ~(proc = "crashed" /\ crashedBy \in Files /\ panicking[crashedBy] = "index")

\* the workers admitted through sem that have not released their slot
InFlight ==
    {f \in Files : pc[f] \in {"read", "format", "process", "request", "choice",
                              "merge", "reformat", "write", "release"}}

\* C5: at most concurrency workers are admitted and not yet released (they
\* are the tokens in sem), so main starts no further file while
\* concurrency of them are.
C5_BoundedInFlight ==
    /\ Cardinality(InFlight) <= concurrency
    /\ Cardinality(InFlight) = sem

\* sem is full, main has a further file to start and waits for a slot
C5_Witness ==
    /\ pcMain = "acquire"
    /\ i <= total
    /\ Cardinality(InFlight) = concurrency
    /\ concurrency < total

\* the elided text of a file that parses has no package-and-imports prologue
StripFails(code) ==
    /\ ~ParseFile(code, NoComments).err
    /\ PrologueMatches(FormatNode(ElideBodies(ParseFile(code, NoComments)))) = {}

\* C10: when the elided text has no prologue to strip, the elision step
\* does not fail the file: the worker goes on to the annotation request
\* with the elided text as it is.
C10_StripFailureRecovers ==
    [][\A f \in Files :
         (pc[f] = "process" /\ pc'[f] # "process" /\ StripFails(goCode[f]))
         => /\ pc'[f] = "request"
            /\ ~err'[f]
            /\ processedCode'[f] =
                   FormatNode(ElideBodies(ParseFile(goCode[f], NoComments)))]_vars

(***************************************************************************)
(* Properties of the merge step: MergeSpec.  They are stated on the text   *)
(* that goes in and the text that comes out.                               *)
(***************************************************************************)
\* the lines of a text that hold a declaration, in document order
DeclLines(src) == SelectSeq(Idx(src), LAMBDA p : src[p].k \in {"func", "type"})

FuncLines(src) == SelectSeq(Idx(src), LAMBDA p : src[p].k = "func")

\* the comment lines that stand right above line p, as texts
DocAbove(src, p) ==
    LET top == Min({q \in 1..p : \A m \in q..(p - 1) : src[m].k = "comment"})
    IN  [n \in 1..(p - top) |-> src[top + n - 1].s]

\* an entry's comment as the lines of a doc comment
DocOf(comment) ==
    [n \in DOMAIN SplitLines(comment) |-> <<Slashes>> \o SplitLines(comment)[n]]

\* the entries of the reply and the declarations whose slice holds the
\* position marker of an entry
EntriesOf(json) == Unmarshal(json).Comments

MatchesOf(src, e) ==
    {j \in DOMAIN DeclLines(src) : Contains(src[DeclLines(src)[j]].s, e.Position)}

\* the output holds the declarations of the input, in the same order
SameDecls(src, out) ==
    /\ Len(DeclLines(out)) = Len(DeclLines(src))
    /\ \A j \in DOMAIN DeclLines(src) : out[DeclLines(out)[j]] = src[DeclLines(src)[j]]

\* the doc comment of the j-th declaration, in the input and in the output
DocIn(j) == DocAbove(mSrc, DeclLines(mSrc)[j])

DocOut(j) == DocAbove(mOut.code, DeclLines(mOut.code)[j])

Merged == mPc \in {"merged", "again"}

\* C6: a declaration that has a doc comment keeps exactly that comment;
\* merging a source whose declarations are all documented returns the
\* source, also when entries match them; and merging the output of a merge
\* again, with the same entries, returns that output.
C6_DocKept ==
    (Merged /\ ~mOut.err) =>
        /\ SameDecls(mSrc, mOut.code)
        /\ \A j \in DOMAIN DeclLines(mSrc) : DocIn(j) # <<>> => DocOut(j) = DocIn(j)
        /\ (\A j \in DOMAIN DeclLines(mSrc) : DocIn(j) # <<>>) => mOut.code = mSrc
        /\ mPc = "again" => mAgain = mOut

\* a documented function and an entry that matches it, merged twice, next
\* to a function that got its comment from the first merge
C6_Witness ==
    /\ mPc = "again"
    /\ ~mAgain.err
    /\ \E j \in DOMAIN DeclLines(mSrc), k \in DOMAIN EntriesOf(mJSON) :
        /\ mSrc[DeclLines(mSrc)[j]].k = "func"
        /\ DocIn(j) # <<>>
        /\ j \in MatchesOf(mSrc, EntriesOf(mJSON)[k])
    /\ \E j \in DOMAIN DeclLines(mSrc) : DocIn(j) = <<>> /\ DocOut(j) # <<>>

\* no declaration of the source has a doc comment
NoDocComments(src) == \A j \in DOMAIN DeclLines(src) : DocAbove(src, DeclLines(src)[j]) = <<>>

\* the entries and the functions of the source match one to one: as many
\* entries as functions, each marker in the slice of exactly one
\* declaration, a function, and no two markers in the same one
OneToOne(src, es) ==
    /\ Len(es) = Len(FuncLines(src))
    /\ \A k \in DOMAIN es :
        /\ Cardinality(MatchesOf(src, es[k])) = 1
        /\ \A j \in MatchesOf(src, es[k]) : src[DeclLines(src)[j]].k = "func"
    /\ \A k, l \in DOMAIN es : k # l => MatchesOf(src, es[k]) # MatchesOf(src, es[l])

CommentLines(src) == SelectSeq(Idx(src), LAMBDA p : src[p].k = "comment")

RECURSIVE DocLinesOf(_, _)
DocLinesOf(es, k) == IF k > Len(es) THEN 0 ELSE Len(DocOf(es[k].Comment)) + DocLinesOf(es, k + 1)

\* the merge returned the source with the comment of its entry right above
\* each function, no comment above any other declaration, and no comment
\* line more than the entries hold
Delivered(src, es, out) ==
    /\ ~out.err
    /\ SameDecls(src, out.code)
    /\ \A j \in DOMAIN DeclLines(src) :
        IF src[DeclLines(src)[j]].k = "func"
        THEN \E k \in DOMAIN es :
                /\ MatchesOf(src, es[k]) = {j}
                /\ DocAbove(out.code, DeclLines(out.code)[j]) = DocOf(es[k].Comment)
        ELSE DocAbove(out.code, DeclLines(out.code)[j]) = <<>>
    /\ Len(CommentLines(out.code)) <= Len(CommentLines(src)) + DocLinesOf(es, 1)

OneToOneCase ==
    /\ mPc = "merged"
    /\ ~Unmarshal(mJSON).err
    /\ NoDocComments(mSrc)
    /\ OneToOne(mSrc, EntriesOf(mJSON))

AttachedTo(e) ==
    {j \in DOMAIN DeclLines(mSrc) : DocIn(j) = <<>> /\ DocOut(j) = DocOf(e.Comment)}

\* C8: an entry is consumed by at most one declaration, so the comment of
\* no entry ends up above two declarations (told apart when the entries
\* have different comments), and a declaration gets at most one comment.
C8_EntryUsedOnce ==
    (mPc = "merged" /\ ~mOut.err) =>
        LET es == EntriesOf(mJSON)
        IN  /\ SameDecls(mSrc, mOut.code)
            /\ (\A k, l \in DOMAIN es : k # l => es[k].Comment # es[l].Comment)
                => \A k \in DOMAIN es : Cardinality(AttachedTo(es[k])) <= 1
            /\ \A j \in DOMAIN DeclLines(mSrc) :
                DocIn(j) = <<>> =>
                    \/ DocOut(j) = <<>>
                    \/ \E k \in DOMAIN es : DocOut(j) = DocOf(es[k].Comment)

\* the entry matches no declaration
Unmatched(src, e) == MatchesOf(src, e) = {}

\* the reply without its unmatched entries
WithoutUnmatched(src, json) ==
    [json EXCEPT !.comments = SelectSeq(json.comments, LAMBDA e : ~Unmatched(src, e))]

\* C9: the merge returns what it returns for the reply without the entries
\* that match no declaration (it succeeds when that one does), and the
\* comment of such an entry is above no declaration.
C9_UnmatchedDropped ==
    (mPc = "merged" /\ ~Unmarshal(mJSON).err) =>
        /\ mOut = addComments(mSrc, WithoutUnmatched(mSrc, mJSON))
        /\ ~mOut.err =>
            \A k \in DOMAIN EntriesOf(mJSON) :
                LET e == EntriesOf(mJSON)[k]
                IN  (/\ Unmatched(mSrc, e)
                     /\ \A l \in DOMAIN EntriesOf(mJSON) :
                            ~Unmatched(mSrc, EntriesOf(mJSON)[l])
                            => EntriesOf(mJSON)[l].Comment # e.Comment)
                    => AttachedTo(e) = {}

\* an unmatched entry stands before an entry that gives a function its
\* comment
C9_Witness ==
    /\ mPc = "merged"
    /\ ~mOut.err
    /\ Len(EntriesOf(mJSON)) = 2
    /\ Unmatched(mSrc, EntriesOf(mJSON)[1])
    /\ AttachedTo(EntriesOf(mJSON)[2]) # {}

(***************************************************************************)
(* The progress channel and the end of the run: Spec.                      *)
(***************************************************************************)
\* the worker of f has delivered its completion signal
SignalDelivered(f) == pc[f] = "end" \/ (pc[f] = "dying" /\ panicking[f] = "index")

\* C13: progress is closed only when every worker has delivered its
\* completion signal, so no worker sends (or is about to send) on the
\* closed channel, and the aggregator's loop ends on the closed channel
\* only with all total signals counted.
C13_ClosedAfterSignals ==
    /\ progressClosed => \A f \in Files : SignalDelivered(f)
    /\ pcAgg = "end" => completed = total

\* the worker of f has not started or is inside its pipeline: file I/O of
\* f is still to come
IOPending(f) ==
    pc[f] \in {"idle", "read", "format", "process", "request", "choice", "merge",
               "reformat", "write"}

\* the completion signal of f has been sent
SignalSent(f) == counted[f] > 0 \/ (pcAgg = "count" /\ received = f)

\* main is past <-done
MainUnblocked == pcMain \in {"return", "end"}

\* C14: the write of a file, or the step that fails, comes before the
\* file's completion signal, and when main is past <-done no worker has
\* file I/O to do.
C14_IOBeforeSignal ==
    /\ \A f \in Files : SignalSent(f) => ~IOPending(f)
    /\ MainUnblocked => \A f \in Files : ~IOPending(f) /\ SignalSent(f)

\* the run of two files has ended, one file written and one failed
C14_Witness ==
    /\ proc = "exited"
    /\ total = 2
    /\ \E f \in Files : disk[f] # orig[f] /\ ~err[f]
    /\ \E f \in Files : err[f]

(***************************************************************************)
(* What the merge step keeps and what it leaves alone: MergeSpec.          *)
(***************************************************************************)
\* how many comment lines of a text read t
CountOf(src, t) == Cardinality({p \in DOMAIN src : src[p].k = "comment" /\ src[p].s = t})

\* C15: every comment of the input is in the output: a new doc comment of
\* a function removes no comment the source had, a detached comment above
\* the function included.
C15_CommentsKept ==
    (mPc = "merged" /\ ~mOut.err) =>
        \A p \in DOMAIN mSrc :
            mSrc[p].k = "comment" => CountOf(mOut.code, mSrc[p].s) >= CountOf(mSrc, mSrc[p].s)

\* the lines of a text that are neither comments nor empty
CodeLines(src) == SelectSeq(src, LAMBDA l : l.k \notin {"comment", "blank"})

\* the declarations of the source that are not functions
OtherDecls(src) == {j \in DOMAIN DeclLines(src) : src[DeclLines(src)[j]].k # "func"}

\* C16: only functions get comments: a type declaration has after the
\* merge the doc comment it had before (none, if it had none), also when
\* an entry's marker is in its slice, and the code lines of the source
\* come out as they went in.
C16_OnlyFunctions ==
    (mPc = "merged" /\ ~mOut.err) =>
        /\ CodeLines(mOut.code) = CodeLines(mSrc)
        /\ \A j \in OtherDecls(mSrc) : DocOut(j) = DocIn(j)

\* an undocumented type whose slice holds the marker of an entry, next to
\* a function that got that entry's comment
C16_Witness ==
    /\ mPc = "merged"
    /\ ~mOut.err
    /\ \E j \in OtherDecls(mSrc), k \in DOMAIN EntriesOf(mJSON) :
        /\ DocIn(j) = <<>>
        /\ j \in MatchesOf(mSrc, EntriesOf(mJSON)[k])
        /\ AttachedTo(EntriesOf(mJSON)[k]) # {}

(***************************************************************************)
(* The start of main (lines 70-134): the log file, the flags, the          *)
(* discovery of the Go files and the token.  A path and the output of git  *)
(* are sequences of tokens; fs is the set of the regular files that exist, *)
(* and Dir is a directory that exists.                                     *)
(***************************************************************************)
MaxChanged == 2

HasSuffix(s, suffix) ==
    Len(s) >= Len(suffix) /\ SubSeq(s, Len(s) - Len(suffix) + 1, Len(s)) = suffix

\* strings.TrimSpace, on tokens: the newlines at both ends go
TrimSpaceOf(s) ==
    LET full == {n \in DOMAIN s : s[n] # NL}
    IN  IF full = {} THEN <<>> ELSE SubSeq(s, Min(full), Max(full))

\* strings.Split(s, "\n"): the empty text gives one empty string
Split(s) == SplitLines(s)

Dir == <<"d">>

Candidates ==
    << <<"a", ".go">>,
       <<"a", "_test", ".go">>,
       <<"b", ".txt">>,
       <<"d", "/", "c", ".go">> >>

ChangedPaths == {<<"a", ".go">>, <<"a", "_test", ".go">>, <<"b", ".txt">>}

\* fileInfo.Name(): the path after its last separator
BaseName(path) ==
    LET seps == {n \in DOMAIN path : path[n] = "/"}
    IN  IF seps = {} THEN path ELSE SubSeq(path, Max(seps) + 1, Len(path))

\* os.Stat(f)
Stat(f, files) ==
    IF f = Dir THEN [err |-> FALSE, IsDir |-> TRUE, Name |-> BaseName(f)]
    ELSE IF f \in files THEN [err |-> FALSE, IsDir |-> FALSE, Name |-> BaseName(f)]
    ELSE [err |-> TRUE, IsDir |-> FALSE, Name |-> <<>>]

\* the test of getGoFiles on a file's name
IsGoFile(name) == HasSuffix(name, <<".go">>) /\ ~HasSuffix(name, <<"_test", ".go">>)

\* filepath.Walk(f, ...): the regular files under f that pass the test
Walk(f, files) ==
    SelectSeq(Candidates,
              LAMBDA p : /\ p \in files
                         /\ Len(p) > Len(f) + 1
                         /\ SubSeq(p, 1, Len(f) + 1) = f \o <<"/">>
                         /\ IsGoFile(BaseName(p)))

\* getGoFiles(fileOrDirList), from its k-th element on
RECURSIVE getGoFilesFrom(_, _, _)
getGoFilesFrom(list, k, files) ==
    IF k > Len(list) THEN [err |-> FALSE, files |-> <<>>]
    ELSE IF Stat(list[k], files).err THEN [err |-> TRUE, files |-> <<>>]
    ELSE IF getGoFilesFrom(list, k + 1, files).err THEN [err |-> TRUE, files |-> <<>>]
    ELSE [err |-> FALSE,
          files |-> (IF Stat(list[k], files).IsDir THEN Walk(list[k], files)
                     ELSE IF IsGoFile(Stat(list[k], files).Name) THEN <<list[k]>>
                     ELSE <<>>)
                    \o getGoFilesFrom(list, k + 1, files).files]

getGoFiles(list, files) == getGoFilesFrom(list, 1, files)

\* gitCommand("diff", "--name-only", "--diff-filter=ACMR", commitOrRef)
gitCommand(answer) ==
    IF answer.err THEN [err |-> TRUE, out |-> <<>>]
    ELSE [err |-> FALSE, out |-> TrimSpaceOf(answer.out)]

gitDiff(answer) ==
    IF gitCommand(answer).err THEN [err |-> TRUE, files |-> <<>>]
    ELSE [err |-> FALSE, files |-> Split(TrimSpaceOf(gitCommand(answer).out))]

\* what git prints for a list of changed files: one path a line
DiffOutput(paths) == Flatten([n \in DOMAIN paths |-> paths[n] \o <<NL>>])

NoGit == [err |-> FALSE, out |-> <<>>]

GitAnswers ==
    {[err |-> TRUE, out |-> <<>>]}
    \cup {[err |-> FALSE, out |-> DiffOutput(paths)] :
            paths \in UNION {[1..n -> ChangedPaths] : n \in 0..MaxChanged}}

InitStart ==
    /\ logOk \in BOOLEAN
    /\ helpFlag \in BOOLEAN
    /\ fileOrDir \in {<<>>, Dir, <<"a", ".go">>, <<"b", ".txt">>}
    /\ commitFlag \in {<<>>, <<"HEAD">>}
    /\ token \in BOOLEAN
    /\ gitOut \in IF commitFlag = <<>> THEN {NoGit} ELSE GitAnswers
    /\ fs \in SUBSET {Candidates[n] : n \in DOMAIN Candidates}
    /\ pcStart = "log"
    /\ fileOrDirList = <<>>
    /\ goFiles = <<>>
    /\ calls = {}
    /\ printed = {}
    /\ exitStatus = -1
    /\ RunOff
    /\ MergeOff

\* main returns (status 0) or calls os.Exit(status)
Exit(status) ==
    /\ pcStart' = "exited"
    /\ exitStatus' = status

\* os.OpenFile("logfile.log", ...)
OpenLog ==
    /\ pcStart = "log"
    /\ IF logOk
       THEN pcStart' = "help" /\ UNCHANGED <<printed, exitStatus>>
       ELSE printed' = printed \cup {"log"} /\ Exit(0)
    /\ UNCHANGED <<logOk, helpFlag, fileOrDir, commitFlag, token, gitOut, fs,
                   fileOrDirList, goFiles, calls>>
    /\ UNCHANGED <<runVars, mergeVars>>

\* if *helpFlag
CheckHelp ==
    /\ pcStart = "help"
    /\ IF helpFlag
       THEN printed' = printed \cup {"usage"} /\ Exit(0)
       ELSE pcStart' = "both" /\ UNCHANGED <<printed, exitStatus>>
    /\ UNCHANGED <<logOk, helpFlag, fileOrDir, commitFlag, token, gitOut, fs,
                   fileOrDirList, goFiles, calls>>
    /\ UNCHANGED <<runVars, mergeVars>>

\* if *commitFlag != "" && *fileOrDir != ""
CheckBoth ==
    /\ pcStart = "both"
    /\ IF commitFlag # <<>> /\ fileOrDir # <<>>
       THEN printed' = printed \cup {"both", "usage"} /\ Exit(0)
       ELSE pcStart' = "neither" /\ UNCHANGED <<printed, exitStatus>>
    /\ UNCHANGED <<logOk, helpFlag, fileOrDir, commitFlag, token, gitOut, fs,
                   fileOrDirList, goFiles, calls>>
    /\ UNCHANGED <<runVars, mergeVars>>

\* if *commitFlag == "" && *fileOrDir == ""
CheckNeither ==
    /\ pcStart = "neither"
    /\ IF commitFlag = <<>> /\ fileOrDir = <<>>
       THEN printed' = printed \cup {"neither", "usage"} /\ Exit(0)
       ELSE pcStart' = "list" /\ UNCHANGED <<printed, exitStatus>>
    /\ UNCHANGED <<logOk, helpFlag, fileOrDir, commitFlag, token, gitOut, fs,
                   fileOrDirList, goFiles, calls>>
    /\ UNCHANGED <<runVars, mergeVars>>

\* fileOrDirList = []string{*fileOrDir}, or fileOrDirList, err = gitDiff(*commitFlag)
ListPaths ==
    /\ pcStart = "list"
    /\ IF fileOrDir # <<>>
       THEN /\ fileOrDirList' = <<fileOrDir>>
            /\ pcStart' = "files"
            /\ UNCHANGED <<calls, printed, exitStatus>>
       ELSE /\ calls' = calls \cup {"gitDiff"}
            /\ IF gitDiff(gitOut).err
               THEN /\ printed' = printed \cup {"git"}
                    /\ Exit(0)
                    /\ UNCHANGED fileOrDirList
               ELSE /\ fileOrDirList' = gitDiff(gitOut).files
                    /\ pcStart' = "files"
                    /\ UNCHANGED <<printed, exitStatus>>
    /\ UNCHANGED <<logOk, helpFlag, fileOrDir, commitFlag, token, gitOut, fs, goFiles>>
    /\ UNCHANGED <<runVars, mergeVars>>

\* goFiles, err = getGoFiles(fileOrDirList)
FindGoFiles ==
    /\ pcStart = "files"
    /\ calls' = calls \cup {"getGoFiles"}
    /\ IF getGoFiles(fileOrDirList, fs).err
       THEN /\ printed' = printed \cup {"files"}
            /\ Exit(0)
            /\ UNCHANGED goFiles
       ELSE /\ goFiles' = getGoFiles(fileOrDirList, fs).files
            /\ pcStart' = "empty"
            /\ UNCHANGED <<printed, exitStatus>>
    /\ UNCHANGED <<logOk, helpFlag, fileOrDir, commitFlag, token, gitOut, fs,
                   fileOrDirList>>
    /\ UNCHANGED <<runVars, mergeVars>>

\* if len(goFiles) == 0
CheckEmpty ==
    /\ pcStart = "empty"
    /\ IF Len(goFiles) = 0
       THEN printed' = printed \cup {"hint"} /\ Exit(0)
       ELSE /\ printed' = printed \cup {"soon"}
            /\ pcStart' = "token"
            /\ UNCHANGED exitStatus
    /\ UNCHANGED <<logOk, helpFlag, fileOrDir, commitFlag, token, gitOut, fs,
                   fileOrDirList, goFiles, calls>>
    /\ UNCHANGED <<runVars, mergeVars>>

\* token := os.Getenv("MOONSHOT_API_KEY"); with it, main goes on to line 139
\* and starts the workers
CheckToken ==
    /\ pcStart = "token"
    /\ IF token
       THEN pcStart' = "workers" /\ UNCHANGED <<printed, exitStatus>>
       ELSE printed' = printed \cup {"token"} /\ Exit(1)
    /\ UNCHANGED <<logOk, helpFlag, fileOrDir, commitFlag, token, gitOut, fs,
                   fileOrDirList, goFiles, calls>>
    /\ UNCHANGED <<runVars, mergeVars>>

NextStart ==
    \/ OpenLog
    \/ CheckHelp
    \/ CheckBoth
    \/ CheckNeither
    \/ ListPaths
    \/ FindGoFiles
    \/ CheckEmpty
    \/ CheckToken

StartSpec == InitStart /\ [][NextStart]_vars

(***************************************************************************)
(* Properties of the start of main: StartSpec.                             *)
(***************************************************************************)
\* both of -f and -c are given, or neither is
UsageError == (fileOrDir # <<>>) = (commitFlag # <<>>)

\* C11: with both of -f and -c, or neither (no -h, and the log file open),
\* main prints the usage text, calls neither gitDiff nor getGoFiles, starts
\* no worker, and the process exits with a status other than 0.
C11_UsageErrorFails ==
    (UsageError /\ logOk /\ ~helpFlag) =>
        /\ pcStart # "workers"
        /\ calls = {}
        /\ pcStart = "exited" => ("usage" \in printed /\ exitStatus # 0)

\* the paths git lists, and the ones of them getGoFiles would keep
ListedPaths == {p \in ChangedPaths : \E n \in DOMAIN Split(gitOut.out) : Split(gitOut.out)[n] = p}

\* change-set mode, git answers, every file it lists exists, and none of
\* them is a Go file that is not a test
NothingChanged ==
    /\ logOk /\ ~helpFlag
    /\ fileOrDir = <<>> /\ commitFlag # <<>>
    /\ ~gitOut.err
    /\ ListedPaths \subseteq fs
    /\ \A p \in ListedPaths : ~IsGoFile(BaseName(p))

\* C12: in change-set mode with no eligible changed file, the list git
\* prints being empty included, discovery returns an empty result and no
\* error, no worker starts, and main ends with status 0 and the hint that
\* there is nothing to do.
C12_NothingToDo ==
    NothingChanged =>
        /\ pcStart # "workers"
        /\ "files" \notin printed
        /\ pcStart = "exited" => ("hint" \in printed /\ exitStatus = 0)

====
